---- MODULE Spec2Model ----
(***************************************************************************)
(* Model of src/lib/woo.ts, the WooCommerce REST client of mini-woo.       *)
(*                                                                         *)
(* Strings are sequences of tokens.  A token is either one of the          *)
(* characters that matter to URL handling ("/", ":", "?", "&", "=", "#",   *)
(* "%", " ") or a run of characters that contains none of them ("https",   *)
(* "wp-json", "consumer_key", "42", ...).  String concatenation is \o.     *)
(*                                                                         *)
(* JSON text is represented by the value it denotes: JSON.stringify is     *)
(* modelled by what it does to that value (members whose value is          *)
(* undefined are omitted), Response.json() by a parse that fails on a body *)
(* that is not JSON.                                                       *)
(*                                                                         *)
(* One invocation of a public operation is followed from the call to the   *)
(* settlement of the promise it returns.  Invocations share no mutable     *)
(* state (the three module constants are read-only), so one invocation at  *)
(* a time is modelled; `sent` holds the requests the current invocation    *)
(* handed to fetch.                                                        *)
(***************************************************************************)
EXTENDS Integers, Sequences, FiniteSets, TLC

VARIABLES
    WOOCOMMERCE_URL,   \* woo.ts:3  process.env.WOOCOMMERCE_URL, or Undefined
    CONSUMER_KEY,      \* woo.ts:4
    CONSUMER_SECRET,   \* woo.ts:5
    pc,                \* position of the current invocation
    inv,               \* the current invocation: operation and arguments
    sent,              \* requests handed to fetch by the current invocation
    res,               \* the Response fetch resolved with
    result             \* what the invocation's promise settled with

vars == <<WOOCOMMERCE_URL, CONSUMER_KEY, CONSUMER_SECRET, pc, inv, sent, res, result>>

----------------------------------------------------------------------------
(* Bounds of the input domains *)

MaxQuery == 2      \* entries in a caller-supplied URLSearchParams
MaxItems == 2      \* entries in line_items
MaxMethods == 2    \* entries in the array the remote returns for a zone

----------------------------------------------------------------------------
(* JavaScript values *)

\* The value `undefined`: a one-token marker no string of the model contains.
Undefined == <<"<undefined>">>

\* String(v) as a template literal or URLSearchParams.set applies it.
Str(v) == IF v = Undefined THEN <<"undefined">> ELSE v

\* An argument that was not passed.
NoQuery == [defined |-> FALSE, params |-> <<>>]
NoBody == [undefined |-> TRUE]
NoAddress == [undefined |-> TRUE]
NoResponse == [status |-> 0, body |-> [kind |-> "none"]]
NoResult == [kind |-> "none"]
NoInvocation == [op |-> "none"]

SeqsUpTo(S, n) == UNION {[1..k -> S] : k \in 0..n}

----------------------------------------------------------------------------
(* Environment (woo.ts:3-5).  `!!` is a compile-time assertion: a variable *)
(* that is not set leaves the constant undefined.                          *)

BaseUrls ==
    {Undefined} \cup
    {scheme \o <<"shop.example">> \o trail :
        scheme \in {<<>>, <<"https", ":", "/", "/">>},
        trail \in {<<>>, <<"/">>}}

Keys == {Undefined, <<"ck_1">>, <<"ck", "&", "consumer_secret", "=", "x">>}
Secrets == {Undefined, <<"cs", "=", "1">>}

----------------------------------------------------------------------------
(* URLSearchParams: an ordered list of name/value pairs *)

Pair(n, v) == [name |-> n, value |-> v]

\* URLSearchParams.prototype.set: the first pair of that name takes the
\* value and the others of that name are removed; appended when absent.
URLSearchParams_set(q, name, value) ==
    IF \E i \in 1..Len(q) : q[i].name = name
    THEN LET first == CHOOSE i \in 1..Len(q) :
                          /\ q[i].name = name
                          /\ \A j \in 1..(i - 1) : q[j].name # name
             keep(p) == p.name # name
         IN  SubSeq(q, 1, first - 1) \o <<Pair(name, value)>>
                 \o SelectSeq(SubSeq(q, first + 1, Len(q)), keep)
    ELSE Append(q, Pair(name, value))

\* application/x-www-form-urlencoded byte serialisation of one token.
percentEncode(t) ==
    CASE t = "&" -> "%26"
      [] t = "=" -> "%3D"
      [] t = "/" -> "%2F"
      [] t = ":" -> "%3A"
      [] t = "?" -> "%3F"
      [] t = "#" -> "%23"
      [] t = "%" -> "%25"
      [] t = "@" -> "%40"
      [] t = " " -> "+"
      [] OTHER -> t

urlencode(s) == [i \in 1..Len(s) |-> percentEncode(s[i])]

\* URLSearchParams.prototype.toString
RECURSIVE URLSearchParams_toString(_)
URLSearchParams_toString(q) ==
    IF Len(q) = 0 THEN <<>>
    ELSE LET p == urlencode(q[1].name) \o <<"=">> \o urlencode(q[1].value)
         IN  IF Len(q) = 1 THEN p
             ELSE p \o <<"&">> \o URLSearchParams_toString(Tail(q))

----------------------------------------------------------------------------
(* String.prototype.replace("//", "/"): a string pattern replaces the      *)
(* first occurrence only.                                                  *)

replace(s) ==
    LET match(i) == s[i] = "/" /\ s[i + 1] = "/"
    IN  IF \E i \in 1..(Len(s) - 1) : match(i)
        THEN LET i == CHOOSE i \in 1..(Len(s) - 1) :
                          match(i) /\ \A j \in 1..(i - 1) : ~match(j)
             IN  SubSeq(s, 1, i) \o SubSeq(s, i + 2, Len(s))
        ELSE s

----------------------------------------------------------------------------
(* JSON.stringify: members whose value is undefined are omitted, also in   *)
(* the nested shipping and billing objects.                                *)

StringKeys ==
    {"customer_note", "email", "first_name", "last_name", "username", "phone",
     "address_1", "address_2", "city", "state", "postcode", "country"}
ObjectKeys == {"shipping", "billing"}

omitUndefined(o) == [k \in {k \in DOMAIN o : o[k] # Undefined} |-> o[k]]

JSON_stringify(v) ==
    [k \in {k \in DOMAIN v : k \in StringKeys => v[k] # Undefined} |->
        IF k \in ObjectKeys THEN omitUndefined(v[k]) ELSE v[k]]

----------------------------------------------------------------------------
(* woo.ts:51-70 *)

ApiPrefix == <<"/", "wp-json", "/", "wc", "/", "v3", "/">>

\* call with URLSearchParams.append in place of set for the key.
call_append(method, api, query, body) ==
    LET url0 == replace(Str(WOOCOMMERCE_URL) \o ApiPrefix \o api)
        q0 == IF ~query.defined THEN <<>> ELSE query.params
        q1 == URLSearchParams_set(q0, <<"consumer_secret">>, Str(CONSUMER_SECRET))
        q2 == Append(q1, Pair(<<"consumer_key">>, Str(CONSUMER_KEY)))
        url == url0 \o <<"?">> \o URLSearchParams_toString(q2)
        b == IF body # NoBody THEN JSON_stringify(body) ELSE body
    IN  [method |-> method, url |-> url, body |-> b,
         headers |-> [ContentType |-> "application/json"]]

\* The (url, init) pair `call` hands to fetch.
call(method, api, query, body) ==
    LET url0 == replace(Str(WOOCOMMERCE_URL) \o ApiPrefix \o api)
        q0 == IF ~query.defined THEN <<>> ELSE query.params
        q1 == URLSearchParams_set(q0, <<"consumer_secret">>, Str(CONSUMER_SECRET))
        q2 == URLSearchParams_set(q1, <<"consumer_key">>, Str(CONSUMER_KEY))
        url == url0 \o <<"?">> \o URLSearchParams_toString(q2)
        b == IF body # NoBody THEN JSON_stringify(body) ELSE body
    IN  [method |-> method, url |-> url, body |-> b,
         headers |-> [ContentType |-> "application/json"]]

put(api, body, query) == call("PUT", api, query, body)
post(api, body, query) == call("POST", api, query, body)
get(api, query) == call("GET", api, query, NoBody)

----------------------------------------------------------------------------
(* Request bodies *)

\* orderInfo.shipping_address?.field
optional(address, field) == IF address = NoAddress THEN Undefined ELSE address[field]

\* createOrder that marks the order paid.
createOrderBody_paid(line_items, customer_note) ==
    [set_paid |-> TRUE, line_items |-> line_items, customer_note |-> customer_note]

\* woo.ts:80-84
createOrderBody(line_items, customer_note) ==
    [set_paid |-> FALSE, line_items |-> line_items, customer_note |-> customer_note]

\* woo.ts:101-124
updateOrderInfoBody(orderInfo) ==
    [shipping |->
        [first_name |-> orderInfo.name,
         last_name |-> orderInfo.name,
         address_1 |-> optional(orderInfo.shipping_address, "street_line1"),
         address_2 |-> optional(orderInfo.shipping_address, "street_line2"),
         city |-> optional(orderInfo.shipping_address, "city"),
         state |-> optional(orderInfo.shipping_address, "state"),
         postcode |-> optional(orderInfo.shipping_address, "post_code"),
         country |-> optional(orderInfo.shipping_address, "country_code")],
     billing |->
        [first_name |-> orderInfo.name,
         last_name |-> orderInfo.name,
         email |-> orderInfo.email,
         phone |-> orderInfo.phone_number,
         address_1 |-> optional(orderInfo.shipping_address, "street_line1"),
         address_2 |-> optional(orderInfo.shipping_address, "street_line2"),
         city |-> optional(orderInfo.shipping_address, "city"),
         state |-> optional(orderInfo.shipping_address, "state"),
         postcode |-> optional(orderInfo.shipping_address, "post_code"),
         country |-> optional(orderInfo.shipping_address, "country_code")]]

\* woo.ts:129-131
setOrderPaidBody == [set_paid |-> TRUE]

\* createUser whose billing last_name is left out.
createUserBody_noLastName(orderInfo) ==
    [email |-> orderInfo.email,
     first_name |-> orderInfo.name,
     last_name |-> orderInfo.name,
     username |-> orderInfo.name,
     shipping |->
        [first_name |-> orderInfo.name,
         last_name |-> orderInfo.name,
         address_1 |-> optional(orderInfo.shipping_address, "street_line1"),
         address_2 |-> optional(orderInfo.shipping_address, "street_line2"),
         city |-> optional(orderInfo.shipping_address, "city"),
         state |-> optional(orderInfo.shipping_address, "state"),
         postcode |-> optional(orderInfo.shipping_address, "post_code"),
         country |-> optional(orderInfo.shipping_address, "country_code")],
     billing |->
        [first_name |-> orderInfo.name,
         email |-> orderInfo.email,
         phone |-> orderInfo.phone_number,
         address_1 |-> optional(orderInfo.shipping_address, "street_line1"),
         address_2 |-> optional(orderInfo.shipping_address, "street_line2"),
         city |-> optional(orderInfo.shipping_address, "city"),
         state |-> optional(orderInfo.shipping_address, "state"),
         postcode |-> optional(orderInfo.shipping_address, "post_code"),
         country |-> optional(orderInfo.shipping_address, "country_code")]]

\* woo.ts:156-183
createUserBody(orderInfo) ==
    [email |-> orderInfo.email,
     first_name |-> orderInfo.name,
     last_name |-> orderInfo.name,
     username |-> orderInfo.name,
     shipping |->
        [first_name |-> orderInfo.name,
         last_name |-> orderInfo.name,
         address_1 |-> optional(orderInfo.shipping_address, "street_line1"),
         address_2 |-> optional(orderInfo.shipping_address, "street_line2"),
         city |-> optional(orderInfo.shipping_address, "city"),
         state |-> optional(orderInfo.shipping_address, "state"),
         postcode |-> optional(orderInfo.shipping_address, "post_code"),
         country |-> optional(orderInfo.shipping_address, "country_code")],
     billing |->
        [first_name |-> orderInfo.name,
         last_name |-> orderInfo.name,
         email |-> orderInfo.email,
         phone |-> orderInfo.phone_number,
         address_1 |-> optional(orderInfo.shipping_address, "street_line1"),
         address_2 |-> optional(orderInfo.shipping_address, "street_line2"),
         city |-> optional(orderInfo.shipping_address, "city"),
         state |-> optional(orderInfo.shipping_address, "state"),
         postcode |-> optional(orderInfo.shipping_address, "post_code"),
         country |-> optional(orderInfo.shipping_address, "country_code")]]

\* updateOrder that posts instead of putting.
updateOrder_post(orderId, update) ==
    post(<<"orders", "/", ToString(orderId)>>, update, NoQuery)

\* woo.ts:96-98
updateOrder(orderId, update) ==
    put(<<"orders", "/", ToString(orderId)>>, update, NoQuery)

\* `shipping/zones/${zoneId}/methods`, woo.ts:137
shippingMethodsApi(zoneId) ==
    <<"shipping", "/", "zones", "/", ToString(zoneId), "/", "methods">>

----------------------------------------------------------------------------
(* woo.ts:139-146 *)

\* ToBoolean of a parsed JSON member (a JSON boolean, null, or absent).
ToBoolean(v) == v \notin {"false", "null", "undefined"}

shippingOption(method) ==
    [id |-> method.method_id,
     title |-> method.method_title,
     prices |-> <<[label |-> "Free", amount |-> 0]>>]

\* The projection without the filter on enabled.
shippingOptions_unfiltered(methods) ==
    [i \in 1..Len(methods) |-> shippingOption(methods[i])]

shippingOptions(methods) ==
    LET enabled(method) == ToBoolean(method.enabled)
        filtered == SelectSeq(methods, enabled)
    IN  [i \in 1..Len(filtered) |-> shippingOption(filtered[i])]

----------------------------------------------------------------------------
(* Input domains *)

Apis == {<<"products">>, <<"orders", "/", "7">>}

QueryPairs ==
    {Pair(<<"per_page">>, <<"10">>),
     Pair(<<"consumer_key">>, <<"old">>),
     Pair(<<"consumer_key">>, <<"ck_1">>),
     Pair(<<"consumer_secret">>, <<"a", "&", "b">>)}

Queries ==
    {NoQuery} \cup {[defined |-> TRUE, params |-> q] : q \in SeqsUpTo(QueryPairs, MaxQuery)}

LineItem == {[product_id |-> 1, quantity |-> 2], [product_id |-> 2, quantity |-> 1]}
LineItems == SeqsUpTo(LineItem, MaxItems)
Notes == {<<"note">>, <<>>}

OrderIds == {42, 7}
ZoneIds == {0, 3}

Addresses ==
    {NoAddress,
     [street_line1 |-> <<"1", " ", "Main", " ", "St">>, street_line2 |-> <<>>,
      city |-> <<"Springfield">>, state |-> <<"IL">>,
      post_code |-> <<"62701">>, country_code |-> <<"US">>],
     [street_line1 |-> <<"Hauptstr", " ", "5">>, street_line2 |-> <<"c", "/", "o", " ", "Bob">>,
      city |-> <<"Berlin">>, state |-> <<>>,
      post_code |-> <<"10115">>, country_code |-> <<"DE">>]}

OrderInfos ==
    [name : {Undefined, <<"Alice">>},
     email : {Undefined, <<"alice", "@", "example.org">>},
     phone_number : {Undefined, <<"555">>},
     shipping_address : Addresses]

\* Entries of the array the remote returns for a shipping zone.
Methods ==
    {[method_id |-> <<"flat">>, method_title |-> <<"Flat", " ", "Rate">>, enabled |-> "true"],
     [method_id |-> <<"x">>, method_title |-> Undefined, enabled |-> "false"],
     [method_id |-> <<"pickup">>, method_title |-> <<"Pickup">>, enabled |-> "undefined"]}

Statuses == {200, 404, 500}

Bodies ==
    {[kind |-> "invalid"],
     [kind |-> "object", val |-> [id |-> 42]],
     [kind |-> "object", val |-> [code |-> "rest_error"]]}
    \cup {[kind |-> "array", items |-> ms] : ms \in SeqsUpTo(Methods, MaxMethods)}

Responses == [status : Statuses, body : Bodies]

ParsingOps == {"createOrder", "createUser", "getShippingOptions"}

----------------------------------------------------------------------------
(* State machine *)

\* Module evaluation (woo.ts:3-5, 189-193) reads the environment and never
\* throws; the client is then ready for calls.
Init ==
    /\ WOOCOMMERCE_URL \in BaseUrls
    /\ CONSUMER_KEY \in Keys
    /\ CONSUMER_SECRET \in Secrets
    /\ pc = "idle"
    /\ inv = NoInvocation
    /\ sent = <<>>
    /\ res = NoResponse
    /\ result = NoResult

\* fetch(url, init), woo.ts:69
fetch(request) ==
    /\ sent' = Append(sent, request)
    /\ pc' = "awaitFetch"
    /\ UNCHANGED <<WOOCOMMERCE_URL, CONSUMER_KEY, CONSUMER_SECRET, res, result>>

\* woo.get(api, query), woo.ts:38-40
Invoke_get ==
    \E api \in Apis, query \in Queries :
        /\ pc = "idle"
        /\ inv' = [op |-> "get", api |-> api, query |-> query]
        /\ fetch(get(api, query))

\* woo.ts:79-85, up to the first await
Invoke_createOrder ==
    \E line_items \in LineItems, customer_note \in Notes :
        /\ pc = "idle"
        /\ inv' = [op |-> "createOrder", line_items |-> line_items,
                   customer_note |-> customer_note]
        /\ fetch(post(<<"orders">>, createOrderBody(line_items, customer_note), NoQuery))

\* woo.ts:155-185, up to the first await
Invoke_createUser ==
    \E orderInfo \in OrderInfos :
        /\ pc = "idle"
        /\ inv' = [op |-> "createUser", orderInfo |-> orderInfo]
        /\ fetch(post(<<"customers">>, createUserBody(orderInfo), NoQuery))

\* woo.ts:100-126
Invoke_updateOrderInfo ==
    \E orderId \in OrderIds, orderInfo \in OrderInfos :
        /\ pc = "idle"
        /\ inv' = [op |-> "updateOrderInfo", orderId |-> orderId, orderInfo |-> orderInfo]
        /\ fetch(updateOrder(orderId, updateOrderInfoBody(orderInfo)))

\* woo.ts:128-133
Invoke_setOrderPaid ==
    \E orderId \in OrderIds :
        /\ pc = "idle"
        /\ inv' = [op |-> "setOrderPaid", orderId |-> orderId]
        /\ fetch(updateOrder(orderId, setOrderPaidBody))

\* woo.ts:136-137, up to the first await
Invoke_getShippingOptions ==
    \E zoneId \in ZoneIds :
        /\ pc = "idle"
        /\ inv' = [op |-> "getShippingOptions", zoneId |-> zoneId]
        /\ fetch(get(shippingMethodsApi(zoneId), NoQuery))

\* The promise of fetch resolves with a Response, whatever its status.
\* get, updateOrderInfo and setOrderPaid return that promise; the async
\* operations resume after `await` and call res.json().
FetchResolve ==
    \E r \in Responses :
        /\ pc = "awaitFetch"
        /\ res' = r
        /\ IF inv.op \in ParsingOps
           THEN pc' = "awaitJson" /\ result' = result
           ELSE pc' = "resolved" /\ result' = [kind |-> "response", res |-> r]
        /\ UNCHANGED <<WOOCOMMERCE_URL, CONSUMER_KEY, CONSUMER_SECRET, inv, sent>>

\* A failed fetch that is tried once more.
FetchReject_retry ==
    /\ pc = "awaitFetch"
    /\ Len(sent) = 1
    /\ sent' = Append(sent, sent[1])
    /\ UNCHANGED <<WOOCOMMERCE_URL, CONSUMER_KEY, CONSUMER_SECRET, pc, inv, res, result>>

\* The promise of fetch rejects (network, DNS, refused connection, URL that
\* does not parse); nothing catches it.
FetchReject ==
    /\ pc = "awaitFetch"
    /\ pc' = "rejected"
    /\ result' = [kind |-> "error", error |-> "TransportError"]
    /\ UNCHANGED <<WOOCOMMERCE_URL, CONSUMER_KEY, CONSUMER_SECRET, inv, sent, res>>

\* What the async operation settles with once res.json() has settled:
\* woo.ts:86, 186 return the parsed body; woo.ts:138-146 filter and map it.
settle(op, body) ==
    IF body.kind = "invalid"
    THEN [kind |-> "error", error |-> "SyntaxError"]
    ELSE IF op = "getShippingOptions"
         THEN IF body.kind = "array"
              THEN [kind |-> "value", val |-> shippingOptions(body.items)]
              ELSE [kind |-> "error", error |-> "TypeError"]
         ELSE [kind |-> "value", val |-> body]

JsonSettle ==
    /\ pc = "awaitJson"
    /\ result' = settle(inv.op, res.body)
    /\ pc' = IF result'.kind = "error" THEN "rejected" ELSE "resolved"
    /\ UNCHANGED <<WOOCOMMERCE_URL, CONSUMER_KEY, CONSUMER_SECRET, inv, sent, res>>

\* The caller has observed the settled promise; the client is idle again.
Return ==
    /\ pc \in {"resolved", "rejected"}
    /\ pc' = "idle"
    /\ inv' = NoInvocation
    /\ sent' = <<>>
    /\ res' = NoResponse
    /\ result' = NoResult
    /\ UNCHANGED <<WOOCOMMERCE_URL, CONSUMER_KEY, CONSUMER_SECRET>>

Next ==
    \/ Invoke_get
    \/ Invoke_createOrder
    \/ Invoke_createUser
    \/ Invoke_updateOrderInfo
    \/ Invoke_setOrderPaid
    \/ Invoke_getShippingOptions
    \/ FetchResolve
    \/ FetchReject
    \/ JsonSettle
    \/ Return

Spec == Init /\ [][Next]_vars

----------------------------------------------------------------------------
(* Reading a request URL back, as its receiver does (RFC 3986 and the      *)
(* application/x-www-form-urlencoded parser).                              *)

IndexOf(s, t) ==
    IF \E i \in 1..Len(s) : s[i] = t
    THEN CHOOSE i \in 1..Len(s) : s[i] = t /\ \A j \in 1..(i - 1) : s[j] # t
    ELSE 0

Before(s, t) == IF IndexOf(s, t) = 0 THEN s ELSE SubSeq(s, 1, IndexOf(s, t) - 1)
After(s, t) == IF IndexOf(s, t) = 0 THEN <<>> ELSE SubSeq(s, IndexOf(s, t) + 1, Len(s))

PathOf(url) == Before(Before(url, "#"), "?")
QueryOf(url) == After(Before(url, "#"), "?")

RECURSIVE Split(_, _)
Split(s, sep) ==
    IF IndexOf(s, sep) = 0 THEN <<s>>
    ELSE <<Before(s, sep)>> \o Split(After(s, sep), sep)

percentDecode(t) ==
    CASE t = "%26" -> "&"
      [] t = "%3D" -> "="
      [] t = "%2F" -> "/"
      [] t = "%3A" -> ":"
      [] t = "%3F" -> "?"
      [] t = "%23" -> "#"
      [] t = "%25" -> "%"
      [] t = "%40" -> "@"
      [] t = "+" -> " "
      [] OTHER -> t

urldecode(s) == [i \in 1..Len(s) |-> percentDecode(s[i])]

ParseQuery(qs) ==
    LET parts == SelectSeq(Split(qs, "&"), LAMBDA part : part # <<>>)
    IN  [i \in 1..Len(parts) |->
            Pair(urldecode(Before(parts[i], "=")), urldecode(After(parts[i], "=")))]

ValuesOf(q, name) == SelectSeq(q, LAMBDA p : p.name = name)

EndsWith(s, t) == Len(t) <= Len(s) /\ SubSeq(s, Len(s) - Len(t) + 1, Len(s)) = t
StartsWith(s, t) == Len(t) <= Len(s) /\ SubSeq(s, 1, Len(t)) = t
Contains(s, t) == \E i \in 0..(Len(s) - Len(t)) : SubSeq(s, i + 1, i + Len(t)) = t

\* The request goes to `endpoint` under the fixed API prefix.
IssuedTo(request, method, endpoint) ==
    /\ request.method = method
    /\ EndsWith(PathOf(request.url), ApiPrefix \o endpoint)

\* The endpoint the invocation addresses.
EndpointOf(i) ==
    CASE i.op = "get" -> i.api
      [] i.op = "createOrder" -> <<"orders">>
      [] i.op = "createUser" -> <<"customers">>
      [] i.op \in {"updateOrderInfo", "setOrderPaid"} -> <<"orders", "/", ToString(i.orderId)>>
      [] i.op = "getShippingOptions" ->
             <<"shipping", "/", "zones", "/", ToString(i.zoneId), "/", "methods">>

Field(o, k) == IF k \in DOMAIN o THEN o[k] ELSE Undefined

Configured ==
    /\ WOOCOMMERCE_URL # Undefined
    /\ CONSUMER_KEY # Undefined
    /\ CONSUMER_SECRET # Undefined

----------------------------------------------------------------------------
(* Claims *)

\* C1: every request handed to the transport carries consumer_key and
\* consumer_secret in its query string, each exactly once, and each equal to
\* the configured credential whenever that credential is configured; this
\* holds for every operation, method and caller-supplied query, also one
\* that already holds consumer_key or consumer_secret.
C1_CredentialsInEveryRequest ==
    \A i \in 1..Len(sent) :
        LET q == ParseQuery(QueryOf(sent[i].url))
            keys == ValuesOf(q, <<"consumer_key">>)
            secrets == ValuesOf(q, <<"consumer_secret">>)
        IN  /\ Len(keys) = 1
            /\ Len(secrets) = 1
            /\ CONSUMER_KEY # Undefined => keys[1].value = CONSUMER_KEY
            /\ CONSUMER_SECRET # Undefined => secrets[1].value = CONSUMER_SECRET

\* A get whose caller-supplied query already names consumer_key twice and
\* consumer_secret never, under a key that needs escaping, has been sent.
C1_Witness ==
    /\ pc = "awaitFetch"
    /\ inv.op = "get"
    /\ inv.query.defined
    /\ Len(inv.query.params) = 2
    /\ \A i \in 1..2 : inv.query.params[i].name = <<"consumer_key">>
    /\ inv.query.params[1].value # inv.query.params[2].value
    /\ Configured
    /\ "&" \in {CONSUMER_KEY[i] : i \in 1..Len(CONSUMER_KEY)}
    /\ Len(sent) = 1

\* C2: when any of the three configuration values is absent, no operation
\* ever hands a request to the transport.
C2_MissingConfigSendsNothing ==
    ~Configured => sent = <<>>

\* C3: for createOrder, createUser and getShippingOptions, a non-2xx
\* response with a valid JSON body resolves the operation with a value, and
\* a response whose body is not valid JSON rejects it with a parsing
\* failure.
C3_StatusBlindParsing ==
    (Configured /\ pc \in {"resolved", "rejected"} /\ inv.op \in ParsingOps /\ res # NoResponse) =>
        /\ (res.status \notin 200..299 /\ res.body.kind # "invalid") =>
               (pc = "resolved" /\ result.kind = "value")
        /\ res.body.kind = "invalid" =>
               (pc = "rejected" /\ result = [kind |-> "error", error |-> "SyntaxError"])

\* C4: an invocation hands exactly one request to the transport; it
\* completes only once the response (and, for the parsing operations, its
\* JSON body) is there; a transport failure rejects it with that single
\* request issued and none after it.
C4_ExactlyOneRequest ==
    /\ pc = "idle" => sent = <<>>
    /\ pc # "idle" => Len(sent) = 1
    /\ pc = "resolved" =>
           /\ res # NoResponse
           /\ inv.op \in ParsingOps => res.body.kind \notin {"none", "invalid"}
           /\ inv.op \notin ParsingOps => result = [kind |-> "response", res |-> res]
    /\ (pc = "awaitFetch") => (res = NoResponse /\ result = NoResult)
    /\ (pc = "rejected" /\ res = NoResponse) =>
           result = [kind |-> "error", error |-> "TransportError"]

\* The transport failed and the invocation has rejected with it.
C4_Witness ==
    /\ Configured
    /\ pc = "rejected"
    /\ result = [kind |-> "error", error |-> "TransportError"]
    /\ inv.op = "createOrder"
    /\ Len(sent) = 1

\* C5: under a base URL that ends in a slash, no request URL holds a
\* doubled slash between the base URL and wp-json/wc/v3.
C5_NoDoubledSlashAtJoin ==
    \A i \in 1..Len(sent) :
        (Configured /\ EndsWith(WOOCOMMERCE_URL, <<"/">>)) =>
            ~Contains(sent[i].url, <<"/", "/", "wp-json">>)

\* C6: the request URL is the base URL, /wp-json/wc/v3/, the endpoint and
\* the query string, with at most the doubled slash at the join collapsed:
\* the base URL's own text is the prefix of the request URL.
C6_BaseUrlIsPrefix ==
    \A i \in 1..Len(sent) :
        Configured =>
            /\ StartsWith(sent[i].url, WOOCOMMERCE_URL)
            /\ PathOf(sent[i].url) =
                   (IF EndsWith(WOOCOMMERCE_URL, <<"/">>)
                    THEN WOOCOMMERCE_URL \o Tail(ApiPrefix)
                    ELSE WOOCOMMERCE_URL \o ApiPrefix) \o EndpointOf(inv)

C8_CreateOrder ==
    (inv.op = "createOrder" /\ pc # "idle") =>
        /\ IssuedTo(sent[1], "POST", <<"orders">>)
        /\ DOMAIN sent[1].body = {"set_paid", "line_items", "customer_note"}
        /\ sent[1].body.set_paid = FALSE
        /\ sent[1].body.line_items = inv.line_items
        /\ sent[1].body.customer_note = inv.customer_note
        /\ pc = "resolved" => result = [kind |-> "value", val |-> res.body]

\* An order of two different line items was created and the remote's JSON
\* object came back.
C8_Witness ==
    /\ Configured
    /\ inv.op = "createOrder"
    /\ pc = "resolved"
    /\ Len(inv.line_items) = 2
    /\ inv.line_items[1] # inv.line_items[2]
    /\ res.body = [kind |-> "object", val |-> [id |-> 42]]
    /\ result.val = res.body

\* C9: setOrderPaid(orderId) issues the request of updateOrder(orderId,
\* {set_paid: true}), a PUT to orders/{orderId} with body {set_paid: true},
\* and resolves with the raw response, never parsing it.
C9_SetOrderPaid ==
    (inv.op = "setOrderPaid" /\ pc # "idle") =>
        /\ IssuedTo(sent[1], "PUT", <<"orders", "/", ToString(inv.orderId)>>)
        /\ sent[1].body = [set_paid |-> TRUE]
        /\ sent[1] = updateOrder(inv.orderId, [set_paid |-> TRUE])
        /\ pc # "awaitJson"
        /\ pc = "resolved" => result = [kind |-> "response", res |-> res]
        /\ pc = "rejected" => result.error = "TransportError"

\* setOrderPaid resolved with a response whose body is not JSON.
C9_Witness ==
    /\ Configured
    /\ inv.op = "setOrderPaid"
    /\ inv.orderId = 42
    /\ pc = "resolved"
    /\ res.body.kind = "invalid"
    /\ result.kind = "response"

\* C10: the bodies of updateOrderInfo (PUT orders/{orderId}) and createUser
\* (POST customers) carry the name as first_name and as last_name in
\* shipping and in billing (and at top level, with username, for
\* createUser), and shipping and billing map the contact's fields alike:
\* every member of shipping is in billing with the same value, drawn from
\* the same field of the contact.
AddressFields ==
    {<<"address_1", "street_line1">>, <<"address_2", "street_line2">>,
     <<"city", "city">>, <<"state", "state">>,
     <<"postcode", "post_code">>, <<"country", "country_code">>}

====
